---- MODULE Spec2Model ----
(***************************************************************************)
(* log-courier: the Registrar (durable offset state) and the TLS           *)
(* transport (sender / receiver tasks), as state machines.                 *)
(***************************************************************************)
EXTENDS Integers, Sequences, FiniteSets, TLC

\* ------------------------------------------------------------------ bounds
MaxFiles == 2
MaxPaths == 2
MaxOffset == 1
MaxBatchLen == 2
MaxEvents == 2
MaxQueue == 2
MaxSends == 2
NumProducers == 2
MaxConnects == 2
MaxFlush == 2
MaxWrite == 1
MaxAttempts == 3
MaxRetries == 1
NumServers == 2
MaxReloads == 2
MaxConfigs == 2
MaxStdinEvents == 2

\* --------------------------------------------------- the program's constants
\* make(chan ..., 1): the capacity of each channel of the transport
ChanCap == 1
\* header := make([]byte, 8)
HeaderLen == 8
\* if length > 1048576
MaxFrameLen == 1048576

\* ------------------------------------------------------------- value sets
Files == 1..MaxFiles
Paths == 1..MaxPaths
Offsets == 0..MaxOffset
Producers == 1..NumProducers

\* Handles of the ProspectorInfo structures LoadPrevious creates, one per path.
ResumeInfo(p) == MaxFiles + p

\* A file that does not exist, and the content of one that does.
Absent == [exists |-> FALSE, bytes |-> <<>>, complete |-> FALSE]
FileOf(bytes, complete) == [exists |-> TRUE, bytes |-> bytes, complete |-> complete]

\* No map has been built yet, and a map that has.
NoJSON == [built |-> FALSE, doc |-> <<>>]
JSON(doc) == [built |-> TRUE, doc |-> doc]

VARIABLES
  registrar_chan,  \* Registrar.registrar_chan: batches queued, oldest first
  chan_closed,     \* registrar_chan has been closed
  references,      \* Registrar.references
  state,           \* Registrar.state: ProspectorInfo -> FileState
  events,          \* Register: the batch taken from the channel
  idx,             \* Register: position of the inner loop in events
  rpc,             \* Register: position of the task
  state_json,      \* Register: the map handed to WriteRegistry
  statefile,       \* content of <persistdir>/.log-courier
  newfile,         \* content of <persistdir>/.log-courier.new
  ppc,             \* position of each producer (Publisher, Prospector)
  ptmp,            \* Disconnect: the value of references a producer has read
  started,         \* the pipeline has been started
  shutdown_sig,    \* the pipeline shutdown signal has been broadcast
  panicked,        \* the process has panicked
  data,            \* LoadPrevious: the decoded document, or its nil result
  \* history of the run
  state0,          \* Registrar.state when the current batch was taken
  prev_json,       \* the map handed to the WriteRegistry call before the last
  acked,           \* per file, offsets carried by processed OffsetsAcked events
  announced,       \* per file, offsets carried by processed NewFile events
  expect,          \* the batches sent so far applied in order to the empty state
  nsent,           \* batches sent on the channel
  nrecv,           \* batches taken from the channel
  nwrites          \* completed WriteRegistry calls

regvars == <<registrar_chan, chan_closed, references, state, events, idx, rpc,
             state_json, statefile, newfile, ppc, ptmp, started, shutdown_sig,
             panicked, data, state0, prev_json, acked, announced, expect,
             nsent, nrecv, nwrites>>

VARIABLES
  socket,          \* TransportTls.socket: "nil", "open" or "closed"
  shutdown,        \* TransportTls.shutdown: "nil", "open" or "closed"
  send_chan,       \* TransportTls.send_chan: the flushed buffers, oldest first
  recv_chan,       \* TransportTls.recv_chan: messages and errors, oldest first
  can_send,        \* TransportTls.can_send: the signals it holds
  can_recv,        \* TransportTls.can_recv: the signals it holds
  wait,            \* TransportTls.wait: the counter of the WaitGroup
  write_buffer,    \* TransportTls.write_buffer: the writes it holds
  cpc,             \* position of the caller of the transport
  may_send,        \* the caller has taken a can_send signal and not flushed yet
  may_recv,        \* the caller has taken a can_recv signal and not read yet
  lost,            \* the caller has read an error
  spc,             \* sender: position of the task
  smsg,            \* sender: msg
  tpc,             \* receiver: position of the task
  reading,         \* receiverRead: t.socket.Read has been called
  rneed,           \* receiverRead: len(data)
  received,        \* receiverRead: received
  rerr,            \* receiverRead: err of the last t.socket.Read
  length,          \* receiver: length
  hostport,        \* Connect: the server of the last attempt, 0 before the first
  wlength,         \* TransportTlsWrap.Write: length (0: nothing written yet)
  wtries,          \* TransportTlsWrap.Write: timeouts without progress so far
  \* history of the run
  nflush,          \* calls of Flush
  nconn,           \* calls of Connect
  nattempts,       \* connection attempts
  wfailed,         \* a write of the sender has failed since the last Connect
  errs_placed      \* error values placed on recv_chan since the last Connect

tlsvars == <<socket, shutdown, send_chan, recv_chan, can_send, can_recv, wait,
             write_buffer, cpc, may_send, may_recv, lost, spc, smsg, tpc,
             reading, rneed, received, rerr, length, hostport, wlength,
             wtries,
             nflush, nconn, nattempts, errs_placed, wfailed>>

VARIABLES
  config,          \* logCourier.config
  conffile,        \* the content of the configuration file
  pipeline_config, \* the configuration the pipeline workers hold
  loglevel,        \* the logging level in force
  apc,             \* position of the agent (Run)
  \* history of the run
  old_config,      \* logCourier.config when reloadConfig was called
  old_pipeline,    \* pipeline_config when reloadConfig was called
  reload_err,      \* what the last reloadConfig returned
  nreloads,        \* calls of reloadConfig
  \* stdin mode
  stdin,           \* logCourier.stdin
  harvester,       \* logCourier.harvester: "nil" or "set"
  hstate,          \* the harvester's task: "none", "running" or "finished"
  hstop,           \* the harvester has been asked to stop
  return_chan,     \* the harvester's completion channel (OnFinish)
  finished,        \* the finish status SignalLoop received
  hoffset,         \* offset of the last event the harvester submitted
  sent_off,        \* offset up to which the spooler has released events
  ack_off,         \* offset up to which the stdin registrar has seen acks
  pipeline_down,   \* lc.pipeline.Shutdown() has been called
  \* history of the shutdown
  flushed,         \* SignalLoop has called spoolerImp.Flush()
  via,             \* how SignalLoop was left: "none", "signal" or "finish"
  nstops,          \* calls of lc.harvester.Stop()
  nawaits          \* finish statuses received by Run and cleanShutdown

agentvars == <<config, conffile, pipeline_config, loglevel, apc, old_config,
               old_pipeline, reload_err, nreloads, stdin, harvester, hstate,
               hstop, return_chan, finished, hoffset, sent_off, ack_off,
               pipeline_down, flushed, via, nstops, nawaits>>

\* harvester.FinishStatus: the offset of the last event and whether an error
\* ended the harvester.
FinishStatus(off, err) == [LastEventOffset |-> off, Error |-> err]

\* A configuration: the file it was read from and whether Load completed.
NewConfig == [id |-> 0, loaded |-> FALSE]
Partial(c) == [id |-> c, loaded |-> FALSE]
Loaded(c) == [id |-> c, loaded |-> TRUE]

\* What the configuration file can hold.
ConfFiles == [id : 1..MaxConfigs, valid : BOOLEAN]

vars == <<regvars, tlsvars, agentvars>>

\* ------------------------------------------------------- registrar events
FileState(src, off, ids) == [Source |-> src, Offset |-> off, ids |-> ids]

\* The identity (device, inode) PopulateFileIds reads from a file's fileinfo.
FileIds(f) == 10 + f

AckPairs == [info : Files, Offset : Offsets]

SeqsUpTo(S, n) == UNION {[1..k -> S] : k \in 1..n}

NewFileEvents ==
  {[type |-> "NewFile", info |-> f, Source |-> p, Offset |-> o, Events |-> <<>>] :
     f \in Files, p \in Paths, o \in Offsets}

DeletedEvents ==
  {[type |-> "Deleted", info |-> f, Source |-> 0, Offset |-> 0, Events |-> <<>>] :
     f \in Files}

RenamedEvents ==
  {[type |-> "Renamed", info |-> f, Source |-> p, Offset |-> 0, Events |-> <<>>] :
     f \in Files, p \in Paths}

EventsEvents ==
  {[type |-> "Events", info |-> 0, Source |-> 0, Offset |-> 0, Events |-> es] :
     es \in SeqsUpTo(AckPairs, MaxEvents)}

\* The Prospector sends batches of file events, the Publisher one EventsEvent.
Batches ==
  SeqsUpTo(NewFileEvents \cup DeletedEvents \cup RenamedEvents, MaxBatchLen)
    \cup {<<e>> : e \in EventsEvents}

EmptyState == [f \in {} |-> 0]

\* NewFileEvent.Process
NewFileProcess(e, st) ==
  [g \in DOMAIN st \cup {e.info} |->
     IF g = e.info THEN FileState(e.Source, e.Offset, FileIds(e.info)) ELSE st[g]]

\* DeletedEvent.Process
DeletedProcess(e, st) == [g \in DOMAIN st \ {e.info} |-> st[g]]

\* Mutants of RenamedEvent.Process: the rename drops the entry; the rename
\* replaces the entry by a fresh one, as NewFile does.
RenamedProcessDrop(e, st) == [g \in DOMAIN st \ {e.info} |-> st[g]]

RenamedProcessReset(e, st) ==
  IF e.info \notin DOMAIN st
    THEN st
    ELSE [st EXCEPT ![e.info] = FileState(e.Source, 0, st[e.info].ids)]

\* Mutant of RenamedEvent.Process: a Renamed event for a file without an entry
\* creates one.
RenamedProcessCreates(e, st) ==
  [g \in DOMAIN st \cup {e.info} |->
     IF g \in DOMAIN st
       THEN (IF g = e.info THEN [st[g] EXCEPT !.Source = e.Source] ELSE st[g])
       ELSE FileState(e.Source, 0, FileIds(g))]

\* RenamedEvent.Process
RenamedProcess(e, st) ==
  IF e.info \notin DOMAIN st
    THEN st
    ELSE [st EXCEPT ![e.info].Source = e.Source]

\* EventsEvent.Process: the loop over e.Events, from position i
RECURSIVE EventsLoop(_, _, _)
EventsLoop(es, i, st) ==
  IF i > Len(es)
    THEN st
    ELSE IF es[i].info \notin DOMAIN st
      THEN EventsLoop(es, i + 1, st)
      ELSE EventsLoop(es, i + 1, [st EXCEPT ![es[i].info].Offset = es[i].Offset])

\* Mutant of EventsEvent.Process: the offset of the last event is stored on
\* every entry, whatever file the event belongs to.
EventsProcessAnyFile(e, st) ==
  [g \in DOMAIN st |-> [st[g] EXCEPT !.Offset = e.Events[Len(e.Events)].Offset]]

EventsProcess(e, st) == EventsLoop(e.Events, 1, st)

\* event.Process(r.state): dispatch on the event's type
Process(e, st) ==
  CASE e.type = "NewFile" -> NewFileProcess(e, st)
    [] e.type = "Deleted" -> DeletedProcess(e, st)
    [] e.type = "Renamed" -> RenamedProcess(e, st)
    [] e.type = "Events"  -> EventsProcess(e, st)

\* The inner loop of Register run to its end on one batch, from position i.
RECURSIVE ApplyBatch(_, _, _)
ApplyBatch(b, i, st) ==
  IF i > Len(b) THEN st ELSE ApplyBatch(b, i + 1, Process(b[i], st))

\* ... and on a queue of batches, oldest first.
RECURSIVE ApplyQueue(_, _)
ApplyQueue(q, st) ==
  IF q = <<>> THEN st ELSE ApplyQueue(Tail(q), ApplyBatch(Head(q), 1, st))

\* ------------------------------------------------------- the state document
\* state_json as Register builds it: one value per stored path; when two
\* entries have the same path the one written last wins, and the iteration
\* order of the map is not fixed.
StateJSON(st) ==
  LET paths == {st[f].Source : f \in DOMAIN st}
  IN  {doc \in [paths -> {st[f] : f \in DOMAIN st}] :
         \A p \in paths : doc[p].Source = p}

\* json.Encoder.Encode of the map: its entries in key order.
RECURSIVE EncodeFrom(_, _)
EncodeFrom(doc, p) ==
  IF p > MaxPaths
    THEN <<>>
    ELSE (IF p \in DOMAIN doc THEN <<<<p, doc[p]>>>> ELSE <<>>) \o EncodeFrom(doc, p + 1)

Encode(doc) == EncodeFrom(doc, 1)

\* json.Decoder.Decode into an empty map: nothing is stored unless the file
\* holds one complete value.
Decode(file) ==
  IF file.complete
    THEN [p \in {file.bytes[i][1] : i \in 1..Len(file.bytes)} |->
            file.bytes[CHOOSE i \in 1..Len(file.bytes) : file.bytes[i][1] = p][2]]
    ELSE EmptyState

\* ------------------------------------------------------------------- Init
Init ==
  /\ registrar_chan = <<>>
  /\ chan_closed = FALSE
  /\ references = 0
  /\ state = EmptyState
  /\ events = <<>>
  /\ idx = 1
  /\ rpc = "init"
  /\ state_json = NoJSON
  /\ statefile = Absent
  /\ newfile = Absent
  /\ ppc = [p \in Producers |-> "new"]
  /\ ptmp = [p \in Producers |-> 0]
  /\ started = FALSE
  /\ shutdown_sig = FALSE
  /\ panicked = FALSE
  /\ data = [res |-> "unset", doc |-> <<>>]
  /\ state0 = EmptyState
  /\ prev_json = NoJSON
  /\ acked = [f \in Files |-> {}]
  /\ announced = [f \in Files |-> {}]
  /\ expect = EmptyState
  /\ nsent = 0
  /\ nrecv = 0
  /\ nwrites = 0
  /\ socket = "nil"
  /\ shutdown = "nil"
  /\ send_chan = <<>>
  /\ recv_chan = <<>>
  /\ can_send = 0
  /\ can_recv = 0
  /\ wait = 0
  /\ write_buffer = 0
  /\ cpc = "idle"
  /\ may_send = FALSE
  /\ may_recv = FALSE
  /\ lost = FALSE
  /\ spc = "none"
  /\ smsg = 0
  /\ tpc = "none"
  /\ reading = FALSE
  /\ rneed = 0
  /\ received = 0
  /\ length = 0
  /\ nflush = 0
  /\ nconn = 0
  /\ errs_placed = 0
  /\ rerr = "nil"
  /\ hostport = 0
  /\ wlength = 0
  /\ wtries = 0
  /\ nattempts = 0
  /\ wfailed = FALSE
  /\ config = NewConfig
  /\ conffile = [id |-> 1, valid |-> TRUE]
  /\ pipeline_config = 0
  /\ loglevel = 0
  /\ apc = "startup"
  /\ old_config = NewConfig
  /\ old_pipeline = 0
  /\ reload_err = "none"
  /\ nreloads = 0
  /\ stdin = FALSE
  /\ harvester = "nil"
  /\ hstate = "none"
  /\ hstop = FALSE
  /\ return_chan = <<>>
  /\ finished = FinishStatus(0, FALSE)
  /\ hoffset = 0
  /\ sent_off = 0
  /\ ack_off = 0
  /\ pipeline_down = FALSE
  /\ flushed = FALSE
  /\ via = "none"
  /\ nstops = 0
  /\ nawaits = 0

\* ------------------------------------------------------------- producers
\* Registrar.Connect, called while the pipeline is being constructed.
Connect(p) ==
  /\ ~started
  /\ ppc[p] = "new"
  /\ references' = references + 1
  /\ ppc' = [ppc EXCEPT ![p] = "run"]
  /\ UNCHANGED <<registrar_chan, chan_closed, state, events, idx, rpc, state_json,
                 statefile, newfile, ptmp, started, shutdown_sig, panicked, data,
                 state0, prev_json, acked, announced, expect, nsent, nrecv, nwrites,
                 tlsvars, agentvars>>

\* pipeline.Start: the tasks are launched once every component is constructed.
Start ==
  /\ ~started
  /\ \A p \in Producers : ppc[p] = "run"
  /\ started' = TRUE
  /\ rpc' = "recv"
  /\ UNCHANGED <<registrar_chan, chan_closed, references, state, events, idx,
                 state_json, statefile, newfile, ppc, ptmp, shutdown_sig, panicked,
                 data, state0, prev_json, acked, announced, expect, nsent, nrecv,
                 nwrites,
                 tlsvars, agentvars>>

\* A producer sends one batch, drawn from U, on the channel it got from Connect.
SendFrom(p, U) ==
  /\ started
  /\ ppc[p] = "run"
  /\ nsent < MaxSends
  /\ Len(registrar_chan) < MaxQueue
  /\ \E b \in U :
       /\ registrar_chan' = Append(registrar_chan, b)
       /\ expect' = ApplyBatch(b, 1, expect)
  /\ nsent' = nsent + 1
  /\ UNCHANGED <<chan_closed, references, state, events, idx, rpc, state_json,
                 statefile, newfile, ppc, ptmp, started, shutdown_sig, panicked,
                 data, state0, prev_json, acked, announced, nrecv, nwrites,
                 tlsvars, agentvars>>

Send(p) == SendFrom(p, Batches)

\* The batches of a single acknowledged offset: what is sent in the runs that
\* explore the shutdown, where the content of a batch plays no part.
AckBatches == {b \in Batches : b[1].type = "Events" /\ Len(b[1].Events) = 1}

SendAck(p) == SendFrom(p, AckBatches)

\* The pipeline shutdown signal is broadcast to every component.
Shutdown ==
  /\ started
  /\ ~panicked
  /\ ~shutdown_sig
  /\ shutdown_sig' = TRUE
  /\ UNCHANGED <<registrar_chan, chan_closed, references, state, events, idx, rpc,
                 state_json, statefile, newfile, ppc, ptmp, started, panicked, data,
                 state0, prev_json, acked, announced, expect, nsent, nrecv, nwrites,
                 tlsvars, agentvars>>

\* Registrar.Disconnect, r.references--: the load ...
DisconnectLoad(p) ==
  /\ shutdown_sig
  /\ ppc[p] = "run"
  /\ ptmp' = [ptmp EXCEPT ![p] = references]
  /\ ppc' = [ppc EXCEPT ![p] = "store"]
  /\ UNCHANGED <<registrar_chan, chan_closed, references, state, events, idx, rpc,
                 state_json, statefile, newfile, started, shutdown_sig, panicked,
                 data, state0, prev_json, acked, announced, expect, nsent, nrecv,
                 nwrites,
                 tlsvars, agentvars>>

\* ... and the store of the decremented value.
DisconnectStore(p) ==
  /\ ppc[p] = "store"
  /\ references' = ptmp[p] - 1
  /\ ppc' = [ppc EXCEPT ![p] = "check"]
  /\ UNCHANGED <<registrar_chan, chan_closed, state, events, idx, rpc, state_json,
                 statefile, newfile, ptmp, started, shutdown_sig, panicked, data,
                 state0, prev_json, acked, announced, expect, nsent, nrecv, nwrites,
                 tlsvars, agentvars>>

\* Registrar.Disconnect, if r.references == 0 { close(r.registrar_chan) }:
\* closing a closed channel panics, which ends the process and all its tasks.
DisconnectCheck(p) ==
  /\ ppc[p] = "check"
  /\ IF references = 0 /\ chan_closed
       THEN /\ panicked' = TRUE
            /\ ppc' = [q \in Producers |-> "panicked"]
            /\ rpc' = "panicked"
            /\ UNCHANGED chan_closed
       ELSE /\ chan_closed' = (chan_closed \/ references = 0)
            /\ ppc' = [ppc EXCEPT ![p] = "done"]
            /\ UNCHANGED <<panicked, rpc>>
  /\ UNCHANGED <<registrar_chan, references, state, events, idx, state_json,
                 statefile, newfile, ptmp, started, shutdown_sig, data, state0,
                 prev_json, acked, announced, expect, nsent, nrecv, nwrites,
                 tlsvars, agentvars>>

\* ------------------------------------------------------ Registrar.Register
\* for events := range r.registrar_chan: take the oldest batch
RegisterRecv ==
  /\ rpc = "recv"
  /\ registrar_chan # <<>>
  /\ events' = Head(registrar_chan)
  /\ registrar_chan' = Tail(registrar_chan)
  /\ idx' = 1
  /\ rpc' = "process"
  /\ state0' = state
  /\ nrecv' = nrecv + 1
  /\ UNCHANGED <<chan_closed, references, state, state_json, statefile, newfile,
                 ppc, ptmp, started, shutdown_sig, panicked, data, prev_json, acked,
                 announced, expect, nsent, nwrites,
                 tlsvars, agentvars>>

\* ... the range loop ends when the channel is closed and empty.
RegisterExit ==
  /\ rpc = "recv"
  /\ registrar_chan = <<>>
  /\ chan_closed
  /\ rpc' = "done"
  /\ UNCHANGED <<registrar_chan, chan_closed, references, state, events, idx,
                 state_json, statefile, newfile, ppc, ptmp, started, shutdown_sig,
                 panicked, data, state0, prev_json, acked, announced, expect, nsent,
                 nrecv, nwrites,
                 tlsvars, agentvars>>

AckedBy(e, f) ==
  IF e.type = "Events"
    THEN {e.Events[i].Offset : i \in {j \in 1..Len(e.Events) : e.Events[j].info = f}}
    ELSE {}

AnnouncedBy(e, f) ==
  IF e.type = "NewFile" /\ e.info = f THEN {e.Offset} ELSE {}

\* for _, event := range events { event.Process(r.state) }: one event
RegisterProcess ==
  /\ rpc = "process"
  /\ idx <= Len(events)
  /\ state' = Process(events[idx], state)
  /\ idx' = idx + 1
  /\ acked' = [f \in Files |-> acked[f] \cup AckedBy(events[idx], f)]
  /\ announced' = [f \in Files |-> announced[f] \cup AnnouncedBy(events[idx], f)]
  /\ UNCHANGED <<registrar_chan, chan_closed, references, events, rpc, state_json,
                 statefile, newfile, ppc, ptmp, started, shutdown_sig, panicked,
                 data, state0, prev_json, expect, nsent, nrecv, nwrites,
                 tlsvars, agentvars>>

\* Mutant of the document step: it runs inside the event loop, before the
\* last event of the batch has been applied.
RegisterJSONEarly ==
  /\ rpc = "process"
  /\ idx >= Len(events)
  /\ \E doc \in StateJSON(state) : state_json' = JSON(doc)
  /\ prev_json' = state_json
  /\ rpc' = "create"
  /\ UNCHANGED <<registrar_chan, chan_closed, references, state, events, idx,
                 statefile, newfile, ppc, ptmp, started, shutdown_sig, panicked,
                 data, state0, acked, announced, expect, nsent, nrecv, nwrites,
                 tlsvars, agentvars>>

\* state_json[*value.Source] = value for every value of r.state
RegisterJSON ==
  /\ rpc = "process"
  /\ idx > Len(events)
  /\ \E doc \in StateJSON(state) : state_json' = JSON(doc)
  /\ prev_json' = state_json
  /\ rpc' = "create"
  /\ UNCHANGED <<registrar_chan, chan_closed, references, state, events, idx,
                 statefile, newfile, ppc, ptmp, started, shutdown_sig, panicked,
                 data, state0, acked, announced, expect, nsent, nrecv, nwrites,
                 tlsvars, agentvars>>

\* WriteRegistry: .log-courier.new is created (truncated) ...
WriteRegistryCreate ==
  /\ rpc = "create"
  /\ newfile' = FileOf(<<>>, FALSE)
  /\ rpc' = "encode"
  /\ UNCHANGED <<registrar_chan, chan_closed, references, state, events, idx,
                 state_json, statefile, ppc, ptmp, started, shutdown_sig, panicked,
                 data, state0, prev_json, acked, announced, expect, nsent, nrecv,
                 nwrites,
                 tlsvars, agentvars>>

\* ... the document is written to it ...
WriteRegistryEncode ==
  /\ rpc = "encode"
  /\ newfile' = FileOf(Encode(state_json.doc), TRUE)
  /\ rpc' = "rename"
  /\ UNCHANGED <<registrar_chan, chan_closed, references, state, events, idx,
                 state_json, statefile, ppc, ptmp, started, shutdown_sig, panicked,
                 data, state0, prev_json, acked, announced, expect, nsent, nrecv,
                 nwrites,
                 tlsvars, agentvars>>

\* ... and it is renamed over .log-courier.
WriteRegistryRename ==
  /\ rpc = "rename"
  /\ statefile' = newfile
  /\ newfile' = Absent
  /\ rpc' = "recv"
  /\ nwrites' = nwrites + 1
  /\ UNCHANGED <<registrar_chan, chan_closed, references, state, events, idx,
                 state_json, ppc, ptmp, started, shutdown_sig, panicked, data,
                 state0, prev_json, acked, announced, expect, nsent, nrecv,
                 tlsvars, agentvars>>

\* ---------------------------------------------------- crash and restart
\* The process dies: everything but the two files is lost.
Crash ==
  /\ started
  /\ rpc \notin {"crashed", "loaded"}
  /\ rpc' = "crashed"
  /\ registrar_chan' = <<>>
  /\ chan_closed' = FALSE
  /\ references' = 0
  /\ state' = EmptyState
  /\ events' = <<>>
  /\ idx' = 1
  /\ ppc' = [p \in Producers |-> "new"]
  /\ ptmp' = [p \in Producers |-> 0]
  /\ shutdown_sig' = FALSE
  /\ state0' = EmptyState
  /\ expect' = EmptyState
  /\ UNCHANGED <<state_json, statefile, newfile, started, panicked, data,
                 prev_json, acked, announced, nsent, nrecv, nwrites,
                 tlsvars, agentvars>>

\* Registrar.LoadPrevious on the next start.
LoadPrevious ==
  /\ rpc = "crashed"
  /\ rpc' = "loaded"
  /\ LET f == IF statefile.exists THEN statefile ELSE newfile
     IN  IF ~f.exists
           THEN /\ data' = [res |-> "nil", doc |-> <<>>]
                /\ UNCHANGED state
           ELSE /\ data' = [res |-> "resume", doc |-> Decode(f)]
                /\ state' = [i \in {ResumeInfo(p) : p \in DOMAIN Decode(f)} |->
                               Decode(f)[i - MaxFiles]]
  /\ UNCHANGED <<registrar_chan, chan_closed, references, events, idx, state_json,
                 statefile, newfile, ppc, ptmp, started, shutdown_sig, panicked,
                 state0, prev_json, acked, announced, expect, nsent, nrecv, nwrites,
                 tlsvars, agentvars>>

\* ----------------------------------------------------------------- specs
\* The steps of the Register task.
RegisterNext ==
  \/ RegisterRecv
  \/ RegisterProcess
  \/ RegisterJSON
  \/ WriteRegistryCreate
  \/ WriteRegistryEncode
  \/ WriteRegistryRename

\* The running pipeline: producers send batches, the Registrar applies them.
Next ==
  \/ \E p \in Producers : Connect(p)
  \/ Start
  \/ \E p \in Producers : Send(p)
  \/ RegisterNext

Spec == Init /\ [][Next]_vars

\* ... with the process dying at any point and being started again.
CrashNext ==
  \/ Next
  \/ Crash
  \/ LoadPrevious

CrashSpec == Init /\ [][CrashNext]_vars

\* ... with the shutdown: the producers disconnect, the Registrar drains.
ShutdownNext ==
  \/ \E p \in Producers : Connect(p)
  \/ Start
  \/ \E p \in Producers : SendAck(p)
  \/ Shutdown
  \/ \E p \in Producers : DisconnectLoad(p)
  \/ \E p \in Producers : DisconnectStore(p)
  \/ \E p \in Producers : DisconnectCheck(p)
  \/ RegisterNext
  \/ RegisterExit

ShutdownSpec == Init /\ [][ShutdownNext]_vars

\* ------------------------------------------------------------ TransportTls
\* What recv_chan carries: an error, or a message with the length its header
\* announced and the bytes of payload read into it.
ErrItem == [kind |-> "err", length |-> 0, filled |-> 0]
MsgItem(len, n) == [kind |-> "msg", length |-> len, filled |-> n]

\* The values header[4:8] of a frame can hold.
FrameLens == {0, 1, MaxFrameLen, MaxFrameLen + 1}

\* The bytes a call of t.socket.Read(data[received:]) can return without an
\* error, and together with one.
Remaining == rneed - received
ReadSizes == {n \in {0, 1, Remaining} : n <= Remaining /\ (n = 0 => Remaining = 0)}
ErrorSizes == {0, Remaining}

\* The configured servers (t.config.Servers).
Servers == 1..NumServers

\* setChan: select { case set <- 1: default: }, a send that never blocks on a
\* channel of capacity 1.
setChan(set) == IF set < ChanCap THEN set + 1 ELSE set

\* TransportTls.Connect is called: t.write_buffer = new(bytes.Buffer)
TConnectCall ==
  /\ cpc = "idle"
  /\ socket # "open"
  /\ nconn < MaxConnects
  /\ nconn' = nconn + 1
  /\ write_buffer' = 0
  /\ hostport' = 0
  /\ cpc' = "connect"
  /\ UNCHANGED <<regvars, agentvars, socket, shutdown, send_chan, recv_chan,
                 can_send, can_recv, wait, may_send, may_recv, lost, spc, smsg,
                 tpc, reading, rneed, received, rerr, length, wlength, wtries,
                 nflush, nattempts, errs_placed, wfailed>>

\* TransportTls.Connect: the attempt on server s, picked at random, fails (an
\* invalid host:port, the DNS lookup, the dial or, with the socket already
\* assigned and then closed, the TLS handshake): break to the sleep
TConnectFail(s, handshake) ==
  /\ cpc = "connect"
  /\ nattempts < MaxAttempts
  /\ nattempts' = nattempts + 1
  /\ hostport' = s
  /\ socket' = IF handshake THEN "closed" ELSE socket
  /\ cpc' = "sleep"
  /\ UNCHANGED <<regvars, agentvars, shutdown, send_chan, recv_chan, can_send,
                 can_recv, wait, write_buffer, may_send, may_recv, lost, spc,
                 smsg, tpc, reading, rneed, received, rerr, length, wlength,
                 wtries, nflush, nconn, errs_placed, wfailed>>

\* TransportTls.Connect: time.Sleep(t.config.reconnect), then the next attempt
TConnectSleep ==
  /\ cpc = "sleep"
  /\ cpc' = "connect"
  /\ UNCHANGED <<regvars, agentvars, socket, shutdown, send_chan, recv_chan,
                 can_send, can_recv, wait, write_buffer, may_send, may_recv,
                 lost, spc, smsg, tpc, reading, rneed, received, rerr, length,
                 hostport, wlength, wtries, nflush, nconn, nattempts,
                 errs_placed, wfailed>>

\* TransportTls.Connect: the attempt on server s, picked at random, succeeds:
\* fresh channels, can_send raised, both tasks started.
TConnect(s) ==
  /\ cpc = "connect"
  /\ nattempts < MaxAttempts
  /\ nattempts' = nattempts + 1
  /\ hostport' = s
  /\ cpc' = "idle"
  /\ socket' = "open"
  /\ shutdown' = "open"
  /\ send_chan' = <<>>
  /\ recv_chan' = <<>>
  /\ can_send' = 1
  /\ can_recv' = 0
  /\ wait' = wait + 2
  /\ spc' = "select"
  /\ smsg' = 0
  /\ wlength' = 0
  /\ wtries' = 0
  /\ tpc' = "header"
  /\ reading' = FALSE
  /\ rneed' = HeaderLen
  /\ received' = 0
  /\ rerr' = "nil"
  /\ length' = 0
  /\ may_send' = FALSE
  /\ may_recv' = FALSE
  /\ lost' = FALSE
  /\ errs_placed' = 0
  /\ wfailed' = FALSE
  /\ UNCHANGED <<regvars, agentvars, write_buffer, nflush, nconn>>

\* The caller takes the can_send signal (<-t.CanSend()).
TakeCanSend ==
  /\ cpc = "idle"
  /\ socket = "open"
  /\ can_send = 1
  /\ can_send' = 0
  /\ may_send' = TRUE
  /\ UNCHANGED <<regvars, agentvars, socket, shutdown, send_chan, recv_chan,
                 can_recv, wait, write_buffer, cpc, may_recv, lost, spc, smsg,
                 tpc, reading, rneed, received, rerr, length, hostport,
                 wlength, wtries, nflush, nconn, nattempts, errs_placed,
                 wfailed>>

\* TransportTls.Write: the bytes are appended to write_buffer.
TWrite ==
  /\ cpc = "idle"
  /\ socket = "open"
  /\ may_send
  /\ ~lost
  /\ write_buffer < MaxWrite
  /\ write_buffer' = write_buffer + 1
  /\ UNCHANGED <<regvars, agentvars, socket, shutdown, send_chan, recv_chan,
                 can_send, can_recv, wait, cpc, may_send, may_recv, lost, spc,
                 smsg, tpc, reading, rneed, received, rerr, length, hostport,
                 wlength, wtries, nflush, nconn, nattempts, errs_placed,
                 wfailed>>

\* TransportTls.Flush: the buffer's bytes go to send_chan (the send blocks
\* while the channel is full) and the buffer is reset.
TFlush ==
  /\ cpc = "idle"
  /\ socket = "open"
  /\ may_send
  /\ ~lost
  /\ write_buffer > 0
  /\ nflush < MaxFlush
  /\ Len(send_chan) < ChanCap
  /\ send_chan' = Append(send_chan, write_buffer)
  /\ write_buffer' = 0
  /\ may_send' = FALSE
  /\ nflush' = nflush + 1
  /\ UNCHANGED <<regvars, agentvars, socket, shutdown, recv_chan, can_send,
                 can_recv, wait, cpc, may_recv, lost, spc, smsg, tpc, reading,
                 rneed, received, rerr, length, hostport, wlength, wtries,
                 nconn, nattempts, errs_placed, wfailed>>

\* The caller takes the can_recv signal (<-t.CanRecv()).
TakeCanRecv ==
  /\ cpc = "idle"
  /\ socket = "open"
  /\ can_recv = 1
  /\ can_recv' = 0
  /\ may_recv' = TRUE
  /\ UNCHANGED <<regvars, agentvars, socket, shutdown, send_chan, recv_chan,
                 can_send, wait, write_buffer, cpc, may_send, lost, spc, smsg,
                 tpc, reading, rneed, received, rerr, length, hostport,
                 wlength, wtries, nflush, nconn, nattempts, errs_placed,
                 wfailed>>

\* TransportTls.Read: msg := <-t.recv_chan; an error tells the caller that
\* the connection is lost.
TRead ==
  /\ cpc = "idle"
  /\ socket = "open"
  /\ may_recv
  /\ recv_chan # <<>>
  /\ recv_chan' = Tail(recv_chan)
  /\ may_recv' = FALSE
  /\ lost' = (lost \/ Head(recv_chan).kind = "err")
  /\ UNCHANGED <<regvars, agentvars, socket, shutdown, send_chan, can_send,
                 can_recv, wait, write_buffer, cpc, may_send, spc, smsg, tpc,
                 reading, rneed, received, rerr, length, hostport, wlength,
                 wtries, nflush, nconn, nattempts, errs_placed, wfailed>>

\* TransportTls.Disconnect: close(t.shutdown), then t.wait.Wait(). Closing a
\* nil channel or a closed channel panics.
TDisconnect ==
  /\ cpc = "idle"
  /\ IF shutdown = "open"
       THEN /\ shutdown' = "closed"
            /\ cpc' = "wait"
       ELSE /\ cpc' = "panicked"
            /\ UNCHANGED shutdown
  /\ UNCHANGED <<regvars, agentvars, socket, send_chan, recv_chan, can_send,
                 can_recv, wait, write_buffer, may_send, may_recv, lost, spc,
                 smsg, tpc, reading, rneed, received, rerr, length, hostport,
                 wlength, wtries, nflush, nconn, nattempts, errs_placed,
                 wfailed>>

\* TransportTls.Disconnect, after t.wait.Wait() has returned:
\* t.socket.Close() and t.write_buffer.Reset().
TDisconnectJoin ==
  /\ cpc = "wait"
  /\ wait = 0
  /\ socket' = "closed"
  /\ write_buffer' = 0
  /\ cpc' = "idle"
  /\ UNCHANGED <<regvars, agentvars, shutdown, send_chan, recv_chan, can_send,
                 can_recv, wait, may_send, may_recv, lost, spc, smsg, tpc,
                 reading, rneed, received, rerr, length, hostport, wlength,
                 wtries, nflush, nconn, nattempts, errs_placed, wfailed>>

\* sender: case <-t.shutdown: break SendLoop; t.wait.Done()
SenderShutdown ==
  /\ spc = "select"
  /\ shutdown = "closed"
  /\ spc' = "done"
  /\ wait' = wait - 1
  /\ UNCHANGED <<regvars, agentvars, socket, shutdown, send_chan, recv_chan,
                 can_send, can_recv, write_buffer, cpc, may_send, may_recv,
                 lost, smsg, tpc, reading, rneed, received, rerr, length,
                 hostport, wlength, wtries, nflush, nconn, nattempts,
                 errs_placed, wfailed>>

\* A sender that raises can_send as soon as it has taken the blob, before writing it.
SenderRecvRaises ==
  /\ spc = "select"
  /\ send_chan # <<>>
  /\ smsg' = Head(send_chan)
  /\ send_chan' = Tail(send_chan)
  /\ can_send' = setChan(can_send)
  /\ wlength' = 0
  /\ wtries' = 0
  /\ spc' = "write"
  /\ UNCHANGED <<regvars, agentvars, socket, shutdown, recv_chan, can_recv,
                 wait, write_buffer, cpc, may_send, may_recv, lost, tpc,
                 reading, rneed, received, rerr, length, hostport, nflush,
                 nconn, nattempts, errs_placed, wfailed>>

\* sender: case msg := <-t.send_chan, and the call of t.socket.Write(msg)
SenderRecv ==
  /\ spc = "select"
  /\ send_chan # <<>>
  /\ smsg' = Head(send_chan)
  /\ send_chan' = Tail(send_chan)
  /\ wlength' = 0
  /\ wtries' = 0
  /\ spc' = "write"
  /\ UNCHANGED <<regvars, agentvars, socket, shutdown, recv_chan, can_send,
                 can_recv, wait, write_buffer, cpc, may_send, may_recv, lost,
                 tpc, reading, rneed, received, rerr, length, hostport, nflush,
                 nconn, nattempts, errs_placed, wfailed>>

\* sender: the write succeeded, t.setChan(t.can_send)
SenderWriteOK ==
  /\ spc = "write"
  /\ can_send' = setChan(can_send)
  /\ smsg' = 0
  /\ spc' = "select"
  /\ UNCHANGED <<regvars, agentvars, socket, shutdown, send_chan, recv_chan,
                 can_recv, wait, write_buffer, cpc, may_send, may_recv, lost,
                 tpc, reading, rneed, received, rerr, length, hostport,
                 wlength, wtries, nflush, nconn, nattempts, errs_placed,
                 wfailed>>

\* TransportTlsWrap.Write: w.tcpsocket.Write timed out after writing a part of
\* the blob and no shutdown is signalled: goto RetrySend
SenderWriteProgress ==
  /\ spc = "write"
  /\ shutdown # "closed"
  /\ wlength = 0
  /\ wlength' = 1
  /\ wtries' = 0
  /\ UNCHANGED <<regvars, agentvars, socket, shutdown, send_chan, recv_chan,
                 can_send, can_recv, wait, write_buffer, cpc, may_send,
                 may_recv, lost, spc, smsg, tpc, reading, rneed, received,
                 rerr, length, hostport, nflush, nconn, nattempts, errs_placed,
                 wfailed>>

\* TransportTlsWrap.Write: w.tcpsocket.Write timed out having written nothing
\* and no shutdown is signalled: goto RetrySend
SenderWriteRetry ==
  /\ spc = "write"
  /\ shutdown # "closed"
  /\ wtries < MaxRetries
  /\ wtries' = wtries + 1
  /\ UNCHANGED <<regvars, agentvars, socket, shutdown, send_chan, recv_chan,
                 can_send, can_recv, wait, write_buffer, cpc, may_send,
                 may_recv, lost, spc, smsg, tpc, reading, rneed, received,
                 rerr, length, hostport, wlength, nflush, nconn, nattempts,
                 errs_placed, wfailed>>

\* sender: the write timed out; the wrapper returns a timeout only once the
\* shutdown has been signalled: break SendLoop; t.wait.Done()
SenderWriteTimeout ==
  /\ spc = "write"
  /\ shutdown = "closed"
  /\ smsg' = 0
  /\ wfailed' = TRUE
  /\ spc' = "done"
  /\ wait' = wait - 1
  /\ UNCHANGED <<regvars, agentvars, socket, shutdown, send_chan, recv_chan,
                 can_send, can_recv, write_buffer, cpc, may_send, may_recv,
                 lost, tpc, reading, rneed, received, rerr, length, hostport,
                 wlength, wtries, nflush, nconn, nattempts, errs_placed>>

\* A sender that raises can_send after a failed write as well.
SenderWriteErrorRaises ==
  /\ spc = "write"
  /\ smsg' = 0
  /\ wfailed' = TRUE
  /\ can_send' = setChan(can_send)
  /\ spc' = "puterr"
  /\ UNCHANGED <<regvars, agentvars, socket, shutdown, send_chan, recv_chan,
                 can_recv, wait, write_buffer, cpc, may_send, may_recv, lost,
                 tpc, reading, rneed, received, rerr, length, hostport,
                 wlength, wtries, nflush, nconn, nattempts, errs_placed>>

\* sender: the write failed with another error
SenderWriteError ==
  /\ spc = "write"
  /\ smsg' = 0
  /\ wfailed' = TRUE
  /\ spc' = "puterr"
  /\ UNCHANGED <<regvars, agentvars, socket, shutdown, send_chan, recv_chan,
                 can_send, can_recv, wait, write_buffer, cpc, may_send,
                 may_recv, lost, tpc, reading, rneed, received, rerr, length,
                 hostport, wlength, wtries, nflush, nconn, nattempts,
                 errs_placed>>

\* sender: t.recv_chan <- err (blocks while the channel is full)
SenderPutErr ==
  /\ spc = "puterr"
  /\ Len(recv_chan) < ChanCap
  /\ recv_chan' = Append(recv_chan, ErrItem)
  /\ errs_placed' = errs_placed + 1
  /\ spc' = "seterr"
  /\ UNCHANGED <<regvars, agentvars, socket, shutdown, send_chan, can_send,
                 can_recv, wait, write_buffer, cpc, may_send, may_recv, lost,
                 smsg, tpc, reading, rneed, received, rerr, length, hostport,
                 wlength, wtries, nflush, nconn, nattempts, wfailed>>

\* sender: t.setChan(t.can_recv), and the loop goes on
SenderSetCanRecv ==
  /\ spc = "seterr"
  /\ can_recv' = setChan(can_recv)
  /\ spc' = "select"
  /\ UNCHANGED <<regvars, agentvars, socket, shutdown, send_chan, recv_chan,
                 can_send, wait, write_buffer, cpc, may_send, may_recv, lost,
                 smsg, tpc, reading, rneed, received, rerr, length, hostport,
                 wlength, wtries, nflush, nconn, nattempts, errs_placed,
                 wfailed>>

\* receiverRead: case <-t.shutdown: return nil, true; the receiver breaks out
\* of its loop with err == nil: t.wait.Done()
ReceiverReadShutdown ==
  /\ tpc \in {"header", "payload"}
  /\ ~reading
  /\ shutdown = "closed"
  /\ tpc' = "done"
  /\ wait' = wait - 1
  /\ UNCHANGED <<regvars, agentvars, socket, shutdown, send_chan, recv_chan,
                 can_send, can_recv, write_buffer, cpc, may_send, may_recv,
                 lost, spc, smsg, reading, rneed, received, rerr, length,
                 hostport, wlength, wtries, nflush, nconn, nattempts,
                 errs_placed, wfailed>>

\* receiverRead: default: SetReadDeadline and the call of t.socket.Read
ReceiverReadCall ==
  /\ tpc \in {"header", "payload"}
  /\ ~reading
  /\ shutdown # "closed"
  /\ reading' = TRUE
  /\ UNCHANGED <<regvars, agentvars, socket, shutdown, send_chan, recv_chan,
                 can_send, can_recv, wait, write_buffer, cpc, may_send,
                 may_recv, lost, spc, smsg, tpc, rneed, received, rerr, length,
                 hostport, wlength, wtries, nflush, nconn, nattempts,
                 errs_placed, wfailed>>

\* receiverRead: Read returned n bytes and no error: success, whether or not
\* the buffer is full
ReceiverReadOK(n) ==
  /\ tpc \in {"header", "payload"}
  /\ reading
  /\ reading' = FALSE
  /\ received' = received + n
  /\ rerr' = "nil"
  /\ tpc' = IF tpc = "header" THEN "check" ELSE "deliver"
  /\ UNCHANGED <<regvars, agentvars, socket, shutdown, send_chan, recv_chan,
                 can_send, can_recv, wait, write_buffer, cpc, may_send,
                 may_recv, lost, spc, smsg, rneed, length, hostport, wlength,
                 wtries, nflush, nconn, nattempts, errs_placed, wfailed>>

\* A receiverRead that raises can_recv when a read times out.
ReceiverReadTimeoutRaises ==
  /\ tpc \in {"header", "payload"}
  /\ reading
  /\ reading' = FALSE
  /\ rerr' = "timeout"
  /\ can_recv' = setChan(can_recv)
  /\ tpc' = IF received >= rneed
              THEN (IF tpc = "header" THEN "check" ELSE "deliver")
              ELSE tpc
  /\ UNCHANGED <<regvars, agentvars, socket, shutdown, send_chan, recv_chan,
                 can_send, wait, write_buffer, cpc, may_send, may_recv, lost,
                 spc, smsg, rneed, received, length, hostport, wlength, wtries,
                 nflush, nconn, nattempts, errs_placed, wfailed>>

\* receiverRead: Read timed out: success if the buffer is full, else the
\* loop goes on
ReceiverReadTimeout ==
  /\ tpc \in {"header", "payload"}
  /\ reading
  /\ reading' = FALSE
  /\ rerr' = "timeout"
  /\ tpc' = IF received >= rneed
              THEN (IF tpc = "header" THEN "check" ELSE "deliver")
              ELSE tpc
  /\ UNCHANGED <<regvars, agentvars, socket, shutdown, send_chan, recv_chan,
                 can_send, can_recv, wait, write_buffer, cpc, may_send,
                 may_recv, lost, spc, smsg, rneed, received, length, hostport,
                 wlength, wtries, nflush, nconn, nattempts, errs_placed,
                 wfailed>>

\* receiverRead: Read returned n bytes and another error: success if the
\* buffer is full, else the error is passed back and the receiver breaks out
\* of its loop
ReceiverReadError(n) ==
  /\ tpc \in {"header", "payload"}
  /\ reading
  /\ reading' = FALSE
  /\ received' = received + n
  /\ rerr' = "error"
  /\ tpc' = IF received + n >= rneed
              THEN (IF tpc = "header" THEN "check" ELSE "deliver")
              ELSE "puterr"
  /\ UNCHANGED <<regvars, agentvars, socket, shutdown, send_chan, recv_chan,
                 can_send, can_recv, wait, write_buffer, cpc, may_send,
                 may_recv, lost, spc, smsg, rneed, length, hostport, wlength,
                 wtries, nflush, nconn, nattempts, errs_placed, wfailed>>

\* receiver: length := binary.BigEndian.Uint32(header[4:8]) and the sanity
\* check; then message := make([]byte, 8 + length) and the call of
\* receiverRead(message[8:])
ReceiverCheck(len) ==
  /\ tpc = "check"
  /\ length' = len
  /\ rneed' = len
  /\ received' = 0
  /\ tpc' = IF len > MaxFrameLen THEN "toolarge" ELSE "payload"
  /\ UNCHANGED <<regvars, agentvars, socket, shutdown, send_chan, recv_chan,
                 can_send, can_recv, wait, write_buffer, cpc, may_send,
                 may_recv, lost, spc, smsg, reading, rerr, hostport, wlength,
                 wtries, nflush, nconn, nattempts, errs_placed, wfailed>>

\* receiver: t.recv_chan <- errors.New("Received message too large") (blocks
\* while the channel is full); can_recv is not raised and the loop goes on
ReceiverPutTooLarge ==
  /\ tpc = "toolarge"
  /\ Len(recv_chan) < ChanCap
  /\ recv_chan' = Append(recv_chan, ErrItem)
  /\ errs_placed' = errs_placed + 1
  /\ tpc' = "payload"
  /\ UNCHANGED <<regvars, agentvars, socket, shutdown, send_chan, can_send,
                 can_recv, wait, write_buffer, cpc, may_send, may_recv, lost,
                 spc, smsg, reading, rneed, received, rerr, length, hostport,
                 wlength, wtries, nflush, nconn, nattempts, wfailed>>

\* receiver: t.recv_chan <- message (blocks while the channel is full)
ReceiverPutMessage ==
  /\ tpc = "deliver"
  /\ Len(recv_chan) < ChanCap
  /\ recv_chan' = Append(recv_chan, MsgItem(length, received))
  /\ tpc' = "setmsg"
  /\ UNCHANGED <<regvars, agentvars, socket, shutdown, send_chan, can_send,
                 can_recv, wait, write_buffer, cpc, may_send, may_recv, lost,
                 spc, smsg, reading, rneed, received, rerr, length, hostport,
                 wlength, wtries, nflush, nconn, nattempts, errs_placed,
                 wfailed>>

\* receiver: t.setChan(t.can_recv), and the next header is read
ReceiverSetCanRecv ==
  /\ tpc = "setmsg"
  /\ can_recv' = setChan(can_recv)
  /\ rneed' = HeaderLen
  /\ received' = 0
  /\ length' = 0
  /\ tpc' = "header"
  /\ UNCHANGED <<regvars, agentvars, socket, shutdown, send_chan, recv_chan,
                 can_send, wait, write_buffer, cpc, may_send, may_recv, lost,
                 spc, smsg, reading, rerr, hostport, wlength, wtries, nflush,
                 nconn, nattempts, errs_placed, wfailed>>

\* receiver, after the loop: t.recv_chan <- err (blocks while the channel is
\* full)
ReceiverPutErr ==
  /\ tpc = "puterr"
  /\ Len(recv_chan) < ChanCap
  /\ recv_chan' = Append(recv_chan, ErrItem)
  /\ errs_placed' = errs_placed + 1
  /\ tpc' = "seterr"
  /\ UNCHANGED <<regvars, agentvars, socket, shutdown, send_chan, can_send,
                 can_recv, wait, write_buffer, cpc, may_send, may_recv, lost,
                 spc, smsg, reading, rneed, received, rerr, length, hostport,
                 wlength, wtries, nflush, nconn, nattempts, wfailed>>

\* receiver, after the loop: t.setChan(t.can_recv); t.wait.Done()
ReceiverSetErr ==
  /\ tpc = "seterr"
  /\ can_recv' = setChan(can_recv)
  /\ tpc' = "done"
  /\ wait' = wait - 1
  /\ UNCHANGED <<regvars, agentvars, socket, shutdown, send_chan, recv_chan,
                 can_send, write_buffer, cpc, may_send, may_recv, lost, spc,
                 smsg, reading, rneed, received, rerr, length, hostport,
                 wlength, wtries, nflush, nconn, nattempts, errs_placed,
                 wfailed>>

\* The caller of the transport.
CallerNext ==
  \/ TConnectCall
  \/ \E s \in Servers, handshake \in BOOLEAN : TConnectFail(s, handshake)
  \/ TConnectSleep
  \/ \E s \in Servers : TConnect(s)
  \/ TakeCanSend
  \/ TWrite
  \/ TFlush
  \/ TakeCanRecv
  \/ TRead
  \/ TDisconnect
  \/ TDisconnectJoin

\* The steps of the sender task.
SenderNext ==
  \/ SenderShutdown
  \/ SenderRecv
  \/ SenderWriteOK
  \/ SenderWriteProgress
  \/ SenderWriteRetry
  \/ SenderWriteTimeout
  \/ SenderWriteError
  \/ SenderPutErr
  \/ SenderSetCanRecv

\* The steps of the receiver task.
ReceiverNext ==
  \/ ReceiverReadShutdown
  \/ ReceiverReadCall
  \/ \E n \in ReadSizes : ReceiverReadOK(n)
  \/ ReceiverReadTimeout
  \/ \E n \in ErrorSizes : ReceiverReadError(n)
  \/ \E len \in FrameLens : ReceiverCheck(len)
  \/ ReceiverPutTooLarge
  \/ ReceiverPutMessage
  \/ ReceiverSetCanRecv
  \/ ReceiverPutErr
  \/ ReceiverSetErr

\* The transport: its caller and its two tasks.
TlsNext ==
  \/ CallerNext
  \/ SenderNext
  \/ ReceiverNext

TlsSpec == Init /\ [][TlsNext]_vars

\* ---------------------------------------------------------------- the agent
\* logCourier.startUp: the command line is parsed (the -stdin flag), then
\* loadConfig; the process exits if it fails, else the pipeline is constructed
\* with lc.config and the log level is set. Run: in stdin mode a harvester is
\* created and started on the spooler's input, and its OnFinish channel is kept.
StartUp(flag) ==
  /\ apc = "startup"
  /\ stdin' = flag
  /\ IF conffile.valid
       THEN /\ config' = Loaded(conffile.id)
            /\ pipeline_config' = conffile.id
            /\ loglevel' = conffile.id
            /\ harvester' = IF flag THEN "set" ELSE "nil"
            /\ hstate' = IF flag THEN "running" ELSE "none"
            /\ apc' = "loop"
       ELSE /\ config' = Partial(conffile.id)
            /\ apc' = "exited"
            /\ UNCHANGED <<pipeline_config, loglevel, harvester, hstate>>
  /\ UNCHANGED <<regvars, tlsvars, conffile, old_config, old_pipeline,
                 reload_err, nreloads, hstop, return_chan, finished, hoffset,
                 sent_off, ack_off, flushed, pipeline_down, via, nstops,
                 nawaits>>

\* The operator edits the configuration file.
EditConfig(c) ==
  /\ apc \in {"startup", "loop"}
  /\ c # conffile
  /\ conffile' = c
  /\ UNCHANGED <<regvars, tlsvars, config, pipeline_config, loglevel, apc,
                 old_config, old_pipeline, reload_err, nreloads, stdin,
                 harvester, hstate, hstop, return_chan, finished, hoffset,
                 sent_off, ack_off, flushed, pipeline_down, via, nstops,
                 nawaits>>

\* SignalLoop, case <-lc.reloadChan: reloadConfig calls loadConfig, which
\* starts with lc.config = config.NewConfig()
ReloadCall ==
  /\ apc = "loop"
  /\ nreloads < MaxReloads
  /\ nreloads' = nreloads + 1
  /\ old_config' = config
  /\ old_pipeline' = pipeline_config
  /\ reload_err' = "none"
  /\ config' = NewConfig
  /\ apc' = "load"
  /\ UNCHANGED <<regvars, tlsvars, conffile, pipeline_config, loglevel, stdin,
                 harvester, hstate, hstop, return_chan, finished, hoffset,
                 sent_off, ack_off, flushed, pipeline_down, via, nstops,
                 nawaits>>

\* loadConfig: lc.config.Load fails, having filled in none or a part of the
\* new structure; reloadConfig returns the error and SignalLoop goes on.
ReloadLoadFail(part) ==
  /\ apc = "load"
  /\ ~conffile.valid
  /\ config' = IF part THEN Partial(conffile.id) ELSE NewConfig
  /\ reload_err' = "err"
  /\ apc' = "loop"
  /\ UNCHANGED <<regvars, tlsvars, conffile, pipeline_config, loglevel,
                 old_config, old_pipeline, nreloads, stdin, harvester, hstate,
                 hstop, return_chan, finished, hoffset, sent_off, ack_off,
                 flushed, pipeline_down, via, nstops, nawaits>>

\* loadConfig: lc.config.Load succeeds
ReloadLoadOK ==
  /\ apc = "load"
  /\ conffile.valid
  /\ config' = Loaded(conffile.id)
  /\ apc' = "apply"
  /\ UNCHANGED <<regvars, tlsvars, conffile, pipeline_config, loglevel,
                 old_config, old_pipeline, reload_err, nreloads, stdin,
                 harvester, hstate, hstop, return_chan, finished, hoffset,
                 sent_off, ack_off, flushed, pipeline_down, via, nstops,
                 nawaits>>

\* reloadConfig: the log level is updated, the log file reopened and the HTTP
\* listener restarted (a failure of which is only logged)
ReloadApply ==
  /\ apc = "apply"
  /\ loglevel' = config.id
  /\ apc' = "send"
  /\ UNCHANGED <<regvars, tlsvars, config, conffile, pipeline_config,
                 old_config, old_pipeline, reload_err, nreloads, stdin,
                 harvester, hstate, hstop, return_chan, finished, hoffset,
                 sent_off, ack_off, flushed, pipeline_down, via, nstops,
                 nawaits>>

\* reloadConfig: lc.pipeline.SendConfig(lc.config); return nil
ReloadSend ==
  /\ apc = "send"
  /\ pipeline_config' = config.id
  /\ reload_err' = "nil"
  /\ apc' = "loop"
  /\ UNCHANGED <<regvars, tlsvars, config, conffile, loglevel, old_config,
                 old_pipeline, nreloads, stdin, harvester, hstate, hstop,
                 return_chan, finished, hoffset, sent_off, ack_off, flushed,
                 pipeline_down, via, nstops, nawaits>>

\* SignalLoop, case <-lc.shutdownChan: cleanShutdown is called
AgentShutdown ==
  /\ apc = "loop"
  /\ via' = "signal"
  /\ apc' = "clean"
  /\ UNCHANGED <<regvars, tlsvars, config, conffile, pipeline_config, loglevel,
                 old_config, old_pipeline, reload_err, nreloads, stdin,
                 harvester, hstate, hstop, return_chan, finished, hoffset,
                 sent_off, ack_off, flushed, pipeline_down, nstops, nawaits>>

\* A SignalLoop that leaves lc.harvester set when the finish status arrives.
HarvesterFinishedKept ==
  /\ apc = "loop"
  /\ stdin
  /\ return_chan # <<>>
  /\ finished' = Head(return_chan)
  /\ return_chan' = Tail(return_chan)
  /\ nawaits' = nawaits + 1
  /\ via' = "finish"
  /\ apc' = "flush"
  /\ UNCHANGED <<regvars, tlsvars, config, conffile, pipeline_config, loglevel,
                 old_config, old_pipeline, reload_err, nreloads, stdin,
                 harvester, hstate, hstop, hoffset, sent_off, ack_off, flushed,
                 pipeline_down, nstops>>

\* SignalLoop, case finished := <-harvesterWait (a nil channel unless in stdin
\* mode): the status is logged and lc.harvester = nil
HarvesterFinished ==
  /\ apc = "loop"
  /\ stdin
  /\ return_chan # <<>>
  /\ finished' = Head(return_chan)
  /\ return_chan' = Tail(return_chan)
  /\ harvester' = "nil"
  /\ nawaits' = nawaits + 1
  /\ via' = "finish"
  /\ apc' = "flush"
  /\ UNCHANGED <<regvars, tlsvars, config, conffile, pipeline_config, loglevel,
                 old_config, old_pipeline, reload_err, nreloads, stdin, hstate,
                 hstop, hoffset, sent_off, ack_off, flushed, pipeline_down,
                 nstops>>

\* SignalLoop: spoolerImp.Flush(): what the spooler holds is released to the
\* publisher
SpoolerFlush ==
  /\ apc = "flush"
  /\ sent_off' = hoffset
  /\ flushed' = TRUE
  /\ apc' = "regwait"
  /\ UNCHANGED <<regvars, tlsvars, config, conffile, pipeline_config, loglevel,
                 old_config, old_pipeline, reload_err, nreloads, stdin,
                 harvester, hstate, hstop, return_chan, finished, hoffset,
                 ack_off, pipeline_down, via, nstops, nawaits>>

\* SignalLoop: registrarImp.(*StdinRegistrar).Wait(finished.LastEventOffset)
\* returns once the registrar has seen the acknowledgement of that offset
StdinRegistrarWait ==
  /\ apc = "regwait"
  /\ ack_off >= finished.LastEventOffset
  /\ apc' = "clean"
  /\ UNCHANGED <<regvars, tlsvars, config, conffile, pipeline_config, loglevel,
                 old_config, old_pipeline, reload_err, nreloads, stdin,
                 harvester, hstate, hstop, return_chan, finished, hoffset,
                 sent_off, ack_off, flushed, pipeline_down, via, nstops,
                 nawaits>>

\* cleanShutdown: lc.harvester != nil, lc.harvester.Stop()
CleanStop ==
  /\ apc = "clean"
  /\ harvester = "set"
  /\ hstop' = TRUE
  /\ nstops' = nstops + 1
  /\ apc' = "await"
  /\ UNCHANGED <<regvars, tlsvars, config, conffile, pipeline_config, loglevel,
                 old_config, old_pipeline, reload_err, nreloads, stdin,
                 harvester, hstate, return_chan, finished, hoffset, sent_off,
                 ack_off, flushed, pipeline_down, via, nawaits>>

\* cleanShutdown: finished := <-lc.harvester.OnFinish()
CleanAwait ==
  /\ apc = "await"
  /\ return_chan # <<>>
  /\ return_chan' = Tail(return_chan)
  /\ nawaits' = nawaits + 1
  /\ apc' = "pshutdown"
  /\ UNCHANGED <<regvars, tlsvars, config, conffile, pipeline_config, loglevel,
                 old_config, old_pipeline, reload_err, nreloads, stdin,
                 harvester, hstate, hstop, finished, hoffset, sent_off,
                 ack_off, flushed, pipeline_down, via, nstops>>

\* cleanShutdown: lc.harvester == nil, the harvester is left alone
CleanNoHarvester ==
  /\ apc = "clean"
  /\ harvester = "nil"
  /\ apc' = "pshutdown"
  /\ UNCHANGED <<regvars, tlsvars, config, conffile, pipeline_config, loglevel,
                 old_config, old_pipeline, reload_err, nreloads, stdin,
                 harvester, hstate, hstop, return_chan, finished, hoffset,
                 sent_off, ack_off, flushed, pipeline_down, via, nstops,
                 nawaits>>

\* cleanShutdown: lc.pipeline.Shutdown(), lc.pipeline.Wait(), lc.stopListener();
\* Run leaves SignalLoop
PipelineShutdown ==
  /\ apc = "pshutdown"
  /\ pipeline_down' = TRUE
  /\ apc' = "exited"
  /\ UNCHANGED <<regvars, tlsvars, config, conffile, pipeline_config, loglevel,
                 old_config, old_pipeline, reload_err, nreloads, stdin,
                 harvester, hstate, hstop, return_chan, finished, hoffset,
                 sent_off, ack_off, flushed, via, nstops, nawaits>>

\* The harvester reads a line of stdin and submits the event to the spooler.
HarvesterEvent ==
  /\ hstate = "running"
  /\ ~pipeline_down
  /\ hoffset < MaxStdinEvents
  /\ hoffset' = hoffset + 1
  /\ UNCHANGED <<regvars, tlsvars, config, conffile, pipeline_config, loglevel,
                 apc, old_config, old_pipeline, reload_err, nreloads, stdin,
                 harvester, hstate, hstop, return_chan, finished, sent_off,
                 ack_off, flushed, pipeline_down, via, nstops, nawaits>>

\* The harvester reaches the end of stdin or fails to read: it reports its
\* finish status on the completion channel.
HarvesterEOF(err) ==
  /\ hstate = "running"
  /\ hstate' = "finished"
  /\ return_chan' = Append(return_chan, FinishStatus(hoffset, err))
  /\ UNCHANGED <<regvars, tlsvars, config, conffile, pipeline_config, loglevel,
                 apc, old_config, old_pipeline, reload_err, nreloads, stdin,
                 harvester, hstop, finished, hoffset, sent_off, ack_off,
                 flushed, pipeline_down, via, nstops, nawaits>>

\* The harvester sees the Stop request: it reports its finish status with no
\* error.
HarvesterStopped ==
  /\ hstate = "running"
  /\ hstop
  /\ hstate' = "finished"
  /\ return_chan' = Append(return_chan, FinishStatus(hoffset, FALSE))
  /\ UNCHANGED <<regvars, tlsvars, config, conffile, pipeline_config, loglevel,
                 apc, old_config, old_pipeline, reload_err, nreloads, stdin,
                 harvester, hstop, finished, hoffset, sent_off, ack_off,
                 flushed, pipeline_down, via, nstops, nawaits>>

\* The spooler releases what it holds to the publisher on its own (spool_size
\* reached or idle_timeout elapsed).
SpoolerTimeout ==
  /\ ~pipeline_down
  /\ sent_off < hoffset
  /\ sent_off' = hoffset
  /\ UNCHANGED <<regvars, tlsvars, config, conffile, pipeline_config, loglevel,
                 apc, old_config, old_pipeline, reload_err, nreloads, stdin,
                 harvester, hstate, hstop, return_chan, finished, hoffset,
                 ack_off, flushed, pipeline_down, via, nstops, nawaits>>

\* The publisher records the acknowledgement of the next event sent and the
\* stdin registrar sees it.
PublisherAck ==
  /\ ~pipeline_down
  /\ ack_off < sent_off
  /\ ack_off' = ack_off + 1
  /\ UNCHANGED <<regvars, tlsvars, config, conffile, pipeline_config, loglevel,
                 apc, old_config, old_pipeline, reload_err, nreloads, stdin,
                 harvester, hstate, hstop, return_chan, finished, hoffset,
                 sent_off, flushed, pipeline_down, via, nstops, nawaits>>

\* The agent: start-up, the signal loop, the reloads, the shutdown and, in
\* stdin mode, the harvester and the pipeline behind it.
AgentNext ==
  \/ \E flag \in BOOLEAN : StartUp(flag)
  \/ \E c \in ConfFiles : EditConfig(c)
  \/ ReloadCall
  \/ \E part \in BOOLEAN : ReloadLoadFail(part)
  \/ ReloadLoadOK
  \/ ReloadApply
  \/ ReloadSend
  \/ AgentShutdown
  \/ HarvesterFinished
  \/ SpoolerFlush
  \/ StdinRegistrarWait
  \/ CleanStop
  \/ CleanAwait
  \/ CleanNoHarvester
  \/ PipelineShutdown
  \/ HarvesterEvent
  \/ \E err \in BOOLEAN : HarvesterEOF(err)
  \/ HarvesterStopped
  \/ SpoolerTimeout
  \/ PublisherAck

AgentSpec == Init /\ [][AgentNext]_vars

\* --------------------------------------------------------------- helpers
\* The ProspectorInfo whose identity a stored FileState carries.
InfoOf(fs) == fs.ids - 10

\* The FileStates a state file holds, and whether it holds one for file f.
Persisted(file) == {file.bytes[i][2] : i \in 1..Len(file.bytes)}
PersistedFor(file, f) == {fs \in Persisted(file) : InfoOf(fs) = f}

\* Event e of a batch concerns file f.
Concerns(e, f) ==
  IF e.type = "Events"
    THEN \E i \in 1..Len(e.Events) : e.Events[i].info = f
    ELSE e.info = f

\* The state the Registrar had before event k of the batch it is processing.
StateBefore(k) == ApplyBatch(SubSeq(events, 1, k - 1), 1, state0)

\* The Register task applies the event at idx.
ProcessStep == rpc = "process" /\ idx <= Len(events) /\ idx' = idx + 1

\* The Register task has applied its whole batch and builds the document.
JSONStep == rpc = "process" /\ idx > Len(events) /\ rpc' = "create"

\* ---------------------------------------------------------------- claims
\* C1 (as stated): every offset held in the Registrar's state or in the state
\* file is an offset carried by an OffsetsAcked event for that file.
C1_PersistedWasAcked ==
  /\ \A f \in DOMAIN state : state[f].Offset \in acked[f]
  /\ \A fs \in Persisted(statefile) : fs.Offset \in acked[InfoOf(fs)]

\* C1 (amended): every offset held in the Registrar's state or in the state
\* file was carried by an OffsetsAcked event or by the NewFile event of that
\* file.
C1_PersistedWasAckedOrAnnounced ==
  /\ \A f \in DOMAIN state \cap Files :
       state[f].Offset \in acked[f] \cup announced[f]
  /\ \A fs \in Persisted(statefile) :
       fs.Offset \in acked[InfoOf(fs)] \cup announced[InfoOf(fs)]

\* C1 witness: the state file holds an acknowledged offset that no NewFile
\* event carried.
C1_Witness ==
  /\ statefile.exists
  /\ \E fs \in Persisted(statefile) :
       /\ fs.Offset \in acked[InfoOf(fs)]
       /\ fs.Offset \notin announced[InfoOf(fs)]

\* C2: for a fixed tracked file the offset written to the state file never
\* decreases from one write to the next, over batches that do not register
\* or delete the file.
C2_PersistedMonotone ==
  [][ (rpc = "rename" /\ rpc' = "recv") =>
        \A f \in Files :
          (\A k \in 1..Len(events) :
             ~(events[k].type \in {"NewFile", "Deleted"} /\ events[k].info = f)) =>
          \A old \in PersistedFor(statefile, f) :
            \A new \in PersistedFor(statefile', f) : new.Offset >= old.Offset ]_vars

\* C3: after a restart LoadPrevious returns one complete written state: the
\* last map handed to WriteRegistry, or the one handed to it before (nothing,
\* when there was none); and exactly the last one when no batch was in hand.
C3_RoundTrip ==
  rpc = "loaded" =>
    LET last == IF state_json.built
                  THEN [res |-> "resume", doc |-> state_json.doc]
                  ELSE [res |-> "nil", doc |-> <<>>]
        before == IF prev_json.built
                    THEN [res |-> "resume", doc |-> prev_json.doc]
                    ELSE [res |-> "nil", doc |-> <<>>]
    IN  /\ data \in {last, before}
        /\ nwrites = nrecv => data = last

\* C4: an entry leaves the Registrar's state only in the step that processes
\* a Deleted event for it, and an entry present when a batch is taken is
\* present when the batch has been applied unless the batch holds a Deleted
\* event for it.
C4_OnlyDeletedRemoves ==
  [][ /\ \A f \in DOMAIN state :
           f \notin DOMAIN state' =>
             /\ rpc = "process"
             /\ idx <= Len(events)
             /\ events[idx].type = "Deleted"
             /\ events[idx].info = f
      /\ JSONStep =>
           \A f \in DOMAIN state0 :
             (\A k \in 1..Len(events) :
                ~(events[k].type = "Deleted" /\ events[k].info = f)) =>
             f \in DOMAIN state ]_vars

\* C4 witness: a batch of NewFile, Renamed or OffsetsAcked events for a
\* tracked file has been applied and the entry is still there.
C4_Witness ==
  /\ rpc = "create"
  /\ \E f \in DOMAIN state0 \cap DOMAIN state :
       /\ state[f] # state0[f]
       /\ \E k \in 1..Len(events) : Concerns(events[k], f)

C6_OrderedAndWrittenOnce ==
  /\ ApplyQueue(registrar_chan, ApplyBatch(events, idx, state)) = expect
  /\ rpc = "recv" => nwrites = nrecv
  /\ rpc \in {"process", "create", "encode", "rename"} => nwrites + 1 = nrecv
  /\ rpc \in {"create", "encode", "rename"} =>
       /\ idx > Len(events)
       /\ state_json.doc \in StateJSON(state)
  /\ (rpc = "recv" /\ nrecv > 0) =>
       /\ statefile.exists /\ statefile.complete
       /\ Decode(statefile) = state_json.doc
       /\ state_json.doc \in StateJSON(state)
       /\ state = ApplyBatch(events, 1, state0)

\* C6 witness: two batches have been written, the second of two events whose
\* order matters.
C6_Witness ==
  /\ rpc = "recv"
  /\ nwrites = 2
  /\ Len(events) = 2
  /\ ApplyBatch(<<events[2], events[1]>>, 1, state0) # state
  /\ state # EmptyState

\* C7: the Register task ends only when its channel is closed and every
\* batch sent has been applied and written; and once every producer has
\* disconnected it has ended or can still take a step towards its end.
AllDisconnected == \A p \in Producers : ppc[p] = "done"

C7_ShutdownDrains ==
  /\ rpc = "done" =>
       /\ chan_closed
       /\ registrar_chan = <<>>
       /\ nwrites = nsent
  /\ AllDisconnected =>
       \/ rpc = "done"
       \/ ENABLED (RegisterNext \/ RegisterExit)

\* C8: Transport.Disconnect is idempotent: called on a transport that is not
\* connected (already disconnected, or never connected) it completes without
\* a failure and leaves the transport as it was.
C8_DisconnectIdempotent ==
  [][(cpc = "idle" /\ cpc' \in {"wait", "panicked"} /\ shutdown # "open")
       => (cpc' # "panicked" /\ socket' = socket /\ shutdown' = shutdown)]_vars

\* C9: a frame whose header announces more than 1048576 bytes of payload
\* makes the receiver stop reading: its payload is not read and is never
\* placed on the receive channel as a message.
C9_OversizedFrameRejected ==
  /\ length > MaxFrameLen => tpc \notin {"payload", "deliver", "setmsg"}
  /\ \A i \in 1..Len(recv_chan) :
       recv_chan[i].kind = "msg" => recv_chan[i].length <= MaxFrameLen

\* C10: at most one error value is placed on the receive channel in the
\* lifetime of a connection.
C10_OneErrorPerConnection == errs_placed <= 1

\* C11: can_recv is raised whenever a message or an error is waiting: once
\* the task that placed an item on the receive channel has gone past its
\* raise, a waiting item has a can_recv signal that is pending or that the
\* caller has taken, so no item stays on the channel without one.
C11_CanRecvRaised ==
  (spc # "seterr" /\ tpc \notin {"setmsg", "seterr"})
    => (recv_chan # <<>> => (can_recv = 1 \/ may_recv))

\* The sender's write has succeeded, has failed, and Connect has succeeded.
WriteOKStep == spc = "write" /\ spc' = "select"
WriteFailStep == spc = "write" /\ spc' \in {"puterr", "done"}
ConnectedStep == cpc = "connect" /\ cpc' = "idle"

\* A task that is about to raise a signal can do so at once.
RaiseNeverBlocks ==
  /\ spc = "write" => ENABLED SenderWriteOK
  /\ spc = "seterr" => ENABLED SenderSetCanRecv
  /\ tpc = "setmsg" => ENABLED ReceiverSetCanRecv
  /\ tpc = "seterr" => ENABLED ReceiverSetErr

\* C12: can_send is raised after each successful write of a flushed blob and
\* never after a failed one, the only other raise being the one of a
\* successful Connect; at most one can_send and one can_recv signal is
\* pending, and a raise never blocks the task that makes it.
C12_CanSendRaised ==
  [][/\ WriteOKStep => can_send' = 1
     /\ WriteFailStep => can_send' = can_send
     /\ can_send' > can_send => (WriteOKStep \/ ConnectedStep)
     /\ can_send' \in 0..1 /\ can_recv' \in 0..1
     /\ RaiseNeverBlocks]_vars

\* A first connection on which a write has succeeded and raised can_send.
C12_Witness ==
  nconn = 1 /\ nflush >= 1 /\ can_send = 1 /\ spc = "select" /\ ~wfailed

\* Connect makes an attempt, and the attempt before it in this call failed.
AttemptStep == cpc = "connect" /\ nattempts' = nattempts + 1
RetryStep == AttemptStep /\ hostport # 0

\* C13: after a failed attempt Connect sleeps for the reconnect backoff and
\* then retries a different endpoint: with more than one server configured
\* the server of the next attempt is never the one that just failed.
C13_RetryDifferentEndpoint ==
  [][/\ (AttemptStep /\ cpc' # "idle") => cpc' = "sleep"
     /\ (RetryStep /\ NumServers > 1) => hostport' # hostport]_vars

\* The wrapper's write timed out with nothing written; the sender takes a blob.
TimeoutNoProgressStep == spc = "write" /\ wtries' > wtries
TakeBlobStep == spc = "select" /\ spc' = "write"

\* C14: a write of the sender that times out without progress, or fails
\* with another error, is fatal to the connection: the failure is passed to
\* the caller and the sender writes no further blob on the connection.
C14_WriteFailureFatal ==
  [][/\ TimeoutNoProgressStep => spc' = "puterr"
     /\ wfailed => ~TakeBlobStep]_vars

\* A call of t.socket.Read returns in receiverRead.
ReadReturnStep == reading /\ ~reading'

\* C15: a read of the receiver that times out while no shutdown has been
\* signalled is retried and places nothing on the receive channel; once the
\* shutdown has been signalled the receiver exits, placing neither an error
\* nor a message on the receive channel.
C15_TimeoutRetriedShutdownClean ==
  [][/\ (ReadReturnStep /\ rerr' = "timeout" /\ received < rneed)
          => (tpc' = tpc /\ recv_chan' = recv_chan)
     /\ (ReadReturnStep /\ shutdown = "closed")
          => (tpc' # "puterr" /\ (tpc' = "deliver" => received' = rneed))
     /\ (shutdown = "closed" /\ tpc \in {"header", "payload"} /\ tpc' # tpc
           /\ ~reading)
          => (tpc' = "done" /\ recv_chan' = recv_chan)]_vars

\* C16: receiverRead reports success only when the whole buffer it was given
\* has been filled, so the receiver goes on from the header only with all 8
\* header bytes and places a message on the receive channel only with all
\* length bytes of its payload.
C16_WholeFrameRead ==
  /\ tpc \in {"check", "deliver"} => received = rneed
  /\ \A i \in 1..Len(recv_chan) :
       recv_chan[i].kind = "msg" => recv_chan[i].filled = recv_chan[i].length

\* C17: a failed reload keeps the old configuration: once reloadConfig has
\* returned an error, lc.config is the configuration that was in effect
\* before the reload and no configuration has been sent to the pipeline.
C17_FailedReloadKeepsConfig ==
  reload_err = "err"
    => (config = old_config /\ pipeline_config = old_pipeline)

\* Both tasks of the transport have exited, or were never started.
TasksExited == spc \in {"none", "done"} /\ tpc \in {"none", "done"}

\* C18: Disconnect terminates: while it waits, in whatever state the tasks
\* are, a task can still take a step or both have exited and Disconnect can
\* return; and the socket is closed only after both tasks have exited.
C18_DisconnectTerminates ==
  /\ cpc = "wait" => ENABLED (SenderNext \/ ReceiverNext \/ TDisconnectJoin)
  /\ socket = "closed" => TasksExited

\* The offsets an EventsEvent carries for file f, and the greatest of a set.
OffsetsFor(e, f) ==
  {e.Events[i].Offset : i \in {j \in 1..Len(e.Events) : e.Events[j].info = f}}
MaxOf(S) == CHOOSE x \in S : \A y \in S : y <= x

\* C19: after an OffsetsAcked batch is processed, the offset stored for each
\* tracked file is the greatest of its previous stored offset and the
\* offsets the batch carries for it, whatever the order of the events.
C19_HighestOffsetAcked ==
  [][(ProcessStep /\ events[idx].type = "Events") =>
       \A f \in DOMAIN state :
         /\ f \in DOMAIN state'
         /\ state'[f].Offset =
              MaxOf({state[f].Offset} \cup OffsetsFor(events[idx], f))]_vars

\* C20: the document written after each batch has exactly one entry for
\* every file tracked in the Registrar's state, also when two tracked files
\* have the same stored path.
C20_OneEntryPerFile ==
  /\ rpc \in {"create", "encode", "rename"} =>
       Cardinality(DOMAIN state_json.doc) = Cardinality(DOMAIN state)
  /\ (rpc = "recv" /\ nrecv > 0) =>
       Cardinality(Persisted(statefile)) = Cardinality(DOMAIN state)

\* C21: when all the producers that called Connect call Disconnect, in any
\* interleaving of their steps, the registrar channel is closed exactly
\* once, at the last Disconnect: never twice, never while a producer has
\* yet to decrement the count, and always once all have disconnected.
C21_ClosedExactlyOnce ==
  /\ ~panicked
  /\ chan_closed => \A p \in Producers : ppc[p] \in {"check", "done"}
  /\ AllDisconnected => chan_closed

\* The last offset an EventsEvent carries for file f.
LastOffsetFor(e, f) ==
  LET js == {j \in 1..Len(e.Events) : e.Events[j].info = f}
  IN  e.Events[CHOOSE j \in js : \A k \in js : k <= j].Offset

\* C22: Renamed and OffsetsAcked events for a file without an entry in the
\* Registrar's state are ignored: they create no entry and change no entry,
\* and the events after them are still applied (the loops go on, and the
\* events an OffsetsAcked batch carries for tracked files are stored).
C22_UnknownFileIgnored ==
  [][ProcessStep =>
       /\ (events[idx].type = "Renamed" /\ events[idx].info \notin DOMAIN state)
            => state' = state
       /\ events[idx].type = "Events" =>
            /\ DOMAIN state' = DOMAIN state
            /\ \A g \in DOMAIN state :
                 IF OffsetsFor(events[idx], g) = {}
                   THEN state'[g] = state[g]
                   ELSE state'[g] =
                          [state[g] EXCEPT !.Offset = LastOffsetFor(events[idx], g)]
       /\ rpc' = "process"]_vars

\* C22 witness: an OffsetsAcked batch whose first event is for a file without
\* an entry and whose second is for a tracked file has been applied: the
\* first left no trace, the second changed the stored offset.
C22_Witness ==
  /\ rpc = "create"
  /\ Len(events) = 1
  /\ events[1].type = "Events"
  /\ Len(events[1].Events) = 2
  /\ events[1].Events[1].info \notin DOMAIN state
  /\ events[1].Events[2].info \in DOMAIN state0
  /\ state[events[1].Events[2].info].Offset = events[1].Events[2].Offset
  /\ state[events[1].Events[2].info] # state0[events[1].Events[2].info]

\* C23: with a caller that calls Read only after taking a can_recv signal,
\* once per signal, Read never blocks: whenever a can_recv signal is pending,
\* or has been taken and not yet followed by its Read, the receive channel
\* holds a message or an error.
C23_ReadNeverBlocks ==
  /\ (can_recv = 1 \/ may_recv) => recv_chan # <<>>
  /\ (cpc = "idle" /\ socket = "open" /\ may_recv) => ENABLED TRead

\* C23 witness: the caller has taken the signal of a message it has not read
\* yet while the sender waits to hand over the error of a failed write.
C23_Witness ==
  /\ may_recv
  /\ recv_chan # <<>>
  /\ Head(recv_chan).kind = "msg"
  /\ spc = "puterr"

\* The number of flushed blobs the sender has not finished with: queued on the
\* send channel or being written to the socket.
Outstanding ==
  Len(send_chan) + (IF spc = "write" THEN 1 ELSE 0)

\* C24: with a caller that writes and flushes only after taking a can_send
\* signal, at most one flushed blob is outstanding, no can_send signal is
\* pending (or taken and unused) while one is outstanding, Flush never blocks,
\* and no Write goes into the reset buffer while the sender still holds a blob.
C24_OneBlobOutstanding ==
  /\ Outstanding <= 1
  /\ Outstanding = 1 => (can_send = 0 /\ ~may_send)
  /\ may_send => Len(send_chan) < ChanCap
  /\ (ENABLED TWrite \/ ENABLED TFlush) => Outstanding = 0

\* C24 witness: the second flushed blob of the first connection is being
\* written by the sender, after the first one was written and signalled.
C24_Witness ==
  /\ nconn = 1
  /\ nflush = 2
  /\ spc = "write"
  /\ smsg > 0
  /\ send_chan = <<>>
  /\ can_send = 0
  /\ ~may_send

\* C25: in stdin mode, when the harvester has reported its finish status the
\* main loop first requests a spooler Flush, then waits until the stdin
\* registrar has seen the acknowledgement of the harvester's last event
\* offset, and only then shuts the pipeline down, without stopping or awaiting
\* the finished harvester again; on a shutdown signal the harvester is stopped
\* and its finish status received before the pipeline is shut down.
C25_StdinShutdownOrder ==
  /\ pipeline_down => apc = "exited"
  /\ apc = "regwait" => flushed
  /\ (via = "finish" /\ apc \in {"clean", "pshutdown", "exited"}) =>
       /\ flushed
       /\ finished.LastEventOffset = hoffset
       /\ ack_off >= finished.LastEventOffset
  /\ via = "finish" =>
       /\ nstops = 0
       /\ nawaits = 1
       /\ ~hstop
  /\ (via = "signal" /\ stdin /\ apc \in {"pshutdown", "exited"}) =>
       /\ nstops = 1
       /\ nawaits = 1
       /\ hstate = "finished"
       /\ return_chan = <<>>

\* C25 witness: the harvester finished after its last event, the spooler was
\* flushed, the acknowledgement of that event was seen and the pipeline has
\* been shut down.
C25_Witness ==
  /\ via = "finish"
  /\ pipeline_down
  /\ finished.LastEventOffset = MaxStdinEvents
  /\ ack_off = MaxStdinEvents
  /\ nstops = 0

====
